---- MODULE Spec2Model ----
(***************************************************************************)
(* Sydney harbour pools "passport": the visited-state store (storage.js)   *)
(* and the main app's handlers (app.js) that mutate it and derive the      *)
(* count, the stamp sequence and its pagination.                           *)
(*                                                                         *)
(* Strings that the code compares or reformats (dates) are sequences of    *)
(* one-character strings.  localStorage values are tagged records so that  *)
(* JSON.stringify / JSON.parse / Number() / String() are conversions and   *)
(* not identities.                                                         *)
(***************************************************************************)
EXTENDS Integers, Sequences, FiniteSets, TLC

\* ------------------------------------------------------------------------
\* Bounds of the model
\* ------------------------------------------------------------------------

\* number of pools in pools.json
NPools == 3

\* longest stamp sequence drawn for the pagination specification
MaxStamps == 5

\* largest page index drawn for the pagination specification
MaxPageIn == 10

\* ------------------------------------------------------------------------
\* The pool catalog (pools.json as returned by loadPools)
\* ------------------------------------------------------------------------

PoolNames == <<"balmain", "woolwich", "dawn", "maccallum", "greenwich", "northbridge", "redleaf">>

Catalog == [i \in 1..NPools |-> PoolNames[i]]

PoolIds == {Catalog[i] : i \in 1..NPools}

\* ------------------------------------------------------------------------
\* Characters and strings
\* ------------------------------------------------------------------------

DigitChar == <<"0", "1", "2", "3", "4", "5", "6", "7", "8", "9">>

Digits == {DigitChar[i] : i \in 1..10}

\* Collation rank of the characters that occur: punctuation before digits
\* before letters ('-' < '/' < '0'..'9' < 'l' < 'n' < 'u').
CharRank(c) ==
  CASE c = "-" -> 0
    [] c = "/" -> 1
    [] c = "0" -> 2
    [] c = "1" -> 3
    [] c = "2" -> 4
    [] c = "3" -> 5
    [] c = "4" -> 6
    [] c = "5" -> 7
    [] c = "6" -> 8
    [] c = "7" -> 9
    [] c = "8" -> 10
    [] c = "9" -> 11
    [] c = "l" -> 12
    [] c = "n" -> 13
    [] OTHER   -> 14

\* the JS value null / a missing date
Null == <<>>

\* String(null), what localeCompare turns a null argument into
NullText == <<"n", "u", "l", "l">>

RECURSIVE localeCompare(_, _)
\* a.localeCompare(b) for two strings over the characters above: -1, 0 or 1
localeCompare(a, b) ==
  IF a = <<>> /\ b = <<>> THEN 0
  ELSE IF a = <<>> THEN 0 - 1
  ELSE IF b = <<>> THEN 1
  ELSE IF CharRank(Head(a)) < CharRank(Head(b)) THEN 0 - 1
  ELSE IF CharRank(Head(a)) > CharRank(Head(b)) THEN 1
  ELSE localeCompare(Tail(a), Tail(b))

TwoDigits(n) == <<DigitChar[(n \div 10) + 1], DigitChar[(n % 10) + 1]>>

FourDigits(n) == TwoDigits(n \div 100) \o TwoDigits(n % 100)

\* new Intl.DateTimeFormat('en-AU').format(date): DD/MM/YYYY
FormatAUDate(ymd) ==
  TwoDigits(ymd[3]) \o <<"/">> \o TwoDigits(ymd[2]) \o <<"/">> \o FourDigits(ymd[1])

\* the older stored form YYYY-MM-DD
FormatISODate(ymd) ==
  FourDigits(ymd[1]) \o <<"-">> \o TwoDigits(ymd[2]) \o <<"-">> \o TwoDigits(ymd[3])

\* /^\d{4}-\d{2}-\d{2}$/
IsISOText(d) ==
  /\ Len(d) = 10
  /\ d[5] = "-" /\ d[8] = "-"
  /\ \A i \in {1, 2, 3, 4, 6, 7, 9, 10} : d[i] \in Digits

\* /^\d{2}\/\d{2}\/\d{4}$/
IsAUText(d) ==
  /\ Len(d) = 10
  /\ d[3] = "/" /\ d[6] = "/"
  /\ \A i \in {1, 2, 4, 5, 7, 8, 9, 10} : d[i] \in Digits

\* String(d).replace(/\D/g, '')
StripNonDigits(d) == SelectSeq(d, LAMBDA c : c \in Digits)

\* dateKey without its DD/MM/YYYY branch: the digits in the order written
dateKeyDigitsOnly(d) ==
  IF d = Null THEN <<>>
  ELSE StripNonDigits(d)

\* dateKey(d): the sortable YYYYMMDD key of a stored date
dateKey(d) ==
  IF d = Null THEN <<>>
  ELSE IF IsISOText(d) THEN StripNonDigits(d)
  ELSE IF IsAUText(d) THEN SubSeq(d, 7, 10) \o SubSeq(d, 4, 5) \o SubSeq(d, 1, 2)
  ELSE StripNonDigits(d)

\* formatDateAU(d): display form
formatDateAU(d) ==
  IF d = Null THEN <<>>
  ELSE IF IsISOText(d)
    THEN SubSeq(d, 9, 10) \o <<"/">> \o SubSeq(d, 6, 7) \o <<"/">> \o SubSeq(d, 1, 4)
    ELSE d

\* Calendar days the host clock shows when a sticker is added.
Days == {<<2024, 12, 15>>, <<2025, 2, 1>>}

\* A date an older version of the app left in storage, in ISO form.
StoredISO == FormatISODate(<<2025, 1, 15>>)

\* ------------------------------------------------------------------------
\* localStorage values
\* ------------------------------------------------------------------------
\* A stored visited payload is [t, m]: t = "none" (key absent), "denied"
\* (localStorage.getItem raises), "junk" (text JSON.parse rejects), "scalar"
\* (JSON null, a number, a string or a boolean), "array" (a JSON array, m maps
\* its indices "0", "1", .. to entries) or "map" (a JSON object, m maps its
\* keys to entries).  An entry is [k, done, date] with
\* k = "bool" (legacy true / false), "obj" (an object carrying done and date)
\* or "num" (any other JSON value); done is the JSON value of the boolean or
\* of the done field: "true", "false", "yes" (a truthy non-boolean) or
\* "missing"; date is a string or Null (null, missing or empty).

EmptyMap == [k \in {} |-> Null]

NoPayload == [t |-> "none", m |-> EmptyMap]

JBool(b) == [k |-> "bool", done |-> IF b THEN "true" ELSE "false", date |-> Null]

JObj(done, date) == [k |-> "obj", done |-> done, date |-> date]

JNum == [k |-> "num", done |-> "missing", date |-> Null]

\* the entries a legacy payload holds for one pool
LegacyEntries == {JBool(TRUE), JBool(FALSE)}

\* the entries a current-form payload holds for one pool; the first pool of
\* the catalog may carry a stamp dated by an older version of the app
CurrentEntries(id) ==
  {JObj("false", Null), JObj("yes", Null), JNum}
    \cup (IF id = Catalog[1] THEN {JObj("true", StoredISO)} ELSE {})

\* the pools a stored payload has entries for: the first two of the catalog
\* (the others get their entries from toggles)
PayloadIds == {Catalog[1], Catalog[2]}

\* the legacy payload maps: some of these pool ids, each to true or false
LegacyMaps == UNION {[ks -> LegacyEntries] : ks \in SUBSET PayloadIds}

\* the current-form payload maps: some of these pool ids, each to one of its entries
CurrentMaps ==
  UNION {{m \in [ks -> UNION {CurrentEntries(id) : id \in ks}] :
            \A id \in ks : m[id] \in CurrentEntries(id)} : ks \in SUBSET PayloadIds}

\* every payload the model lets the substrate hold at session start
VisitedPayloads ==
  {NoPayload, [t |-> "junk", m |-> EmptyMap], [t |-> "scalar", m |-> EmptyMap]}
    \cup {[t |-> "map", m |-> m] : m \in LegacyMaps}
    \cup {[t |-> "map", m |-> m] : m \in CurrentMaps}

IsLegacyPayload(p) ==
  p.t = "map" /\ \A k \in DOMAIN p.m : p.m[k].k = "bool"

\* the property names of a JSON array of up to two elements
ArrayKeys == <<"0", "1">>

\* stored JSON arrays: [], [true], [false, 7], ..
ArrayPayloads ==
  {[t |-> "array", m |-> m] :
     m \in UNION {[{ArrayKeys[i] : i \in 1..n} -> LegacyEntries \cup {JNum}] : n \in 0..2}}

\* a substrate whose getItem raises (storage blocked for the page)
DeniedPayload == [t |-> "denied", m |-> EmptyMap]

\* the payloads that are no mapping from pool id to boolean or record
NotAMapping == {"none", "denied", "junk", "scalar", "array"}

\* A stored index is [t, n]: t = "none" (key absent), "junk" (text that is
\* not a number), "text" (the decimal text of the integer n) or "half" (the
\* decimal text of n + 1/2).
NoIndex == [t |-> "none", n |-> 0]

JunkIndex == [t |-> "junk", n |-> 0]

IndexText(n) == [t |-> "text", n |-> n]

\* the decimal text of n + 1/2 ("1.5" for n = 1), which Number() accepts
HalfText(n) == [t |-> "half", n |-> n]

IndexPayloads(max) == {NoIndex, JunkIndex} \cup {IndexText(n) : n \in (0 - 1)..max}

\* the stored selections drawn: absent, invalid, negative, past the catalog
SelectionPayloads == {NoIndex, JunkIndex, IndexText(0 - 1), IndexText(NPools)}

\* !!v for the JSON values of done
Truthy(done) == done \in {"true", "yes"}

\* normalizeVisitedMap with `done: true` written for every legacy boolean
normalizeLegacyAsDone(raw) ==
  IF raw.t \notin {"map", "array"} THEN EmptyMap
  ELSE [k \in {x \in DOMAIN raw.m : raw.m[x].k \in {"bool", "obj"}} |->
          IF raw.m[k].k = "bool"
            THEN [done |-> TRUE, date |-> Null]
            ELSE [done |-> Truthy(raw.m[k].done), date |-> raw.m[k].date]]

\* normalizeVisitedMap(raw), raw the parsed JSON value; typeof raw is 'object'
\* for a JSON object and for a JSON array, whose indices for-in enumerates
normalizeVisitedMap(raw) ==
  IF raw.t \notin {"map", "array"} THEN EmptyMap
  ELSE [k \in {x \in DOMAIN raw.m : raw.m[x].k \in {"bool", "obj"}} |->
          IF raw.m[k].k = "bool"
            THEN [done |-> Truthy(raw.m[k].done), date |-> Null]
            ELSE [done |-> Truthy(raw.m[k].done), date |-> raw.m[k].date]]

\* readVisited() on the stored payload
readVisited(stored) ==
  IF stored.t = "denied" THEN EmptyMap
  ELSE IF stored.t = "none" THEN EmptyMap
  ELSE IF stored.t = "junk" THEN EmptyMap
  ELSE normalizeVisitedMap(stored)

\* the map saved in the legacy form, a boolean per pool
StringifyVisitedLegacy(map) ==
  [t |-> "map", m |-> [k \in DOMAIN map |-> JBool(map[k].done)]]

\* JSON.stringify(map || {})
StringifyVisited(map) ==
  [t |-> "map",
   m |-> [k \in DOMAIN map |->
            JObj(IF map[k].done THEN "true" ELSE "false", map[k].date)]]

\* writeVisited saving under a key nobody reads: the payload stays as it was
writeVisitedLost(stored, map, writable) == stored

\* writeVisited merging the map into what the substrate holds
writeVisitedMerged(stored, map, writable) ==
  LET held == readVisited(stored)
  IN IF writable
       THEN StringifyVisited([k \in DOMAIN held \cup DOMAIN map |->
                                IF k \in DOMAIN map THEN map[k] ELSE held[k]])
       ELSE stored

\* writeVisited(map): the stored payload afterwards
writeVisited(stored, map, writable) ==
  IF writable THEN StringifyVisited(map) ELSE stored

RECURSIVE CountDone(_, _)
\* .filter(v => v && v.done).length over the values of the keys ks of map
CountDone(map, ks) ==
  IF ks = {} THEN 0
  ELSE LET k == CHOOSE x \in ks : TRUE
       IN (IF map[k].done THEN 1 ELSE 0) + CountDone(map, ks \ {k})

\* countVisited as Object.keys(map).length
countVisitedKeys(map) == Cardinality(DOMAIN map)

\* countVisited(map)
countVisited(map) == CountDone(map, DOMAIN map)

\* Number(raw) is finite and >= 0 ? the number : 0.  The number is held as
\* its whole part (ReadIndex) and whether it has a fractional part 1/2
\* (ReadHalf); n + 1/2 >= 0 exactly when n >= 0.
ReadIndex(stored) ==
  IF stored.t \in {"text", "half"} /\ stored.n >= 0 THEN stored.n ELSE 0

ReadHalf(stored) == stored.t = "half" /\ stored.n >= 0

\* readSelection()
readSelection(stored) == ReadIndex(stored)

\* readStampsPage()
readStampsPage(stored) == ReadIndex(stored)

\* writeSelection(index): the stored value afterwards; String(index) of the
\* number with whole part index and fractional part 1/2 if half
writeSelection(stored, index, half, writable) ==
  IF ~writable THEN stored
  ELSE IF half THEN HalfText(index)
  ELSE IndexText(index)

\* writeStampsPage keeping the page index in memory only
writeStampsPageLost(stored, pageIndex, writable) == stored

\* writeStampsPage(pageIndex): the stored value afterwards
writeStampsPage(stored, pageIndex, writable) ==
  IF writable THEN IndexText(pageIndex) ELSE stored

\* ------------------------------------------------------------------------
\* Derived views (renderStamps)
\* ------------------------------------------------------------------------

Min(a, b) == IF a < b THEN a ELSE b

Max(a, b) == IF a > b THEN a ELSE b

stampsPerPage == 2

\* visited[id]?.done
IsDone(vis, id) == id \in DOMAIN vis /\ vis[id].done

\* pools.filter(p => visited[p.id]?.done), catalog order kept
FilterVisited(catalog, vis) == SelectSeq(catalog, LAMBDA id : IsDone(vis, id))

\* what the comparator's a.date.localeCompare(b.date) orders by: the stored
\* date text itself; a null argument is compared as the text "null"
SortText(d) == IF d = Null THEN NullText ELSE d

\* the date texts a session can hold, and localeCompare tabulated over them
DateTexts == {NullText, StoredISO} \cup {FormatAUDate(day) : day \in Days}

TextCompare == [p \in DateTexts \X DateTexts |-> localeCompare(p[1], p[2])]

\* the comparator (a, b) => visited[a.id].date.localeCompare(visited[b.id].date)
CompareStamps(vis, a, b) == TextCompare[<<SortText(vis[a].date), SortText(vis[b].date)>>]

RECURSIVE InsertStamp(_, _, _)
\* x placed behind every element that does not compare greater (stable)
InsertStamp(vis, sorted, x) ==
  IF sorted = <<>> THEN <<x>>
  ELSE IF CompareStamps(vis, Head(sorted), x) > 0 THEN <<x>> \o sorted
  ELSE <<Head(sorted)>> \o InsertStamp(vis, Tail(sorted), x)

RECURSIVE SortStamps(_, _)
\* Array.prototype.sort with the comparator: a stable sort
SortStamps(vis, seq) ==
  IF seq = <<>> THEN <<>>
  ELSE InsertStamp(vis, SortStamps(vis, SubSeq(seq, 1, Len(seq) - 1)), seq[Len(seq)])

NullDated(vis, seq) == {i \in 1..Len(seq) : vis[seq[i]].date = Null}

\* The comparator reads .localeCompare of a's date: a TypeError when that date
\* is null.  Which element is passed as a is up to the engine's sort, so with
\* one null date among several stamps the call may or may not throw; with two
\* or more null dates two of them must be compared and it throws; with fewer
\* than two stamps the comparator is never called.
SortThrows(vis, seq) ==
  IF Len(seq) < 2 \/ NullDated(vis, seq) = {} THEN {FALSE}
  ELSE IF Cardinality(NullDated(vis, seq)) >= 2 THEN {TRUE}
  ELSE {TRUE, FALSE}

\* totalPages with Math.floor for Math.ceil
TotalPagesFloor(n) == Max(1, n \div stampsPerPage)

\* Math.max(1, Math.ceil(n / stampsPerPage))
TotalPages(n) == Max(1, (n + stampsPerPage - 1) \div stampsPerPage)

\* visitedPools: the catalog's visited pools, sorted by the comparator
StampSequence(catalog, vis) == SortStamps(vis, FilterVisited(catalog, vis))

\* The largest page index the model lets the substrate hold and "next" reach:
\* the first index past the last page of a full passport.
MaxPage == TotalPages(NPools)

\* a page index past the end stepped back by one page instead of clamped
ClampPageStepBack(pageIndex, totalPages) ==
  IF pageIndex > totalPages - 1 THEN pageIndex - 1 ELSE pageIndex

\* Math.min(currentStampsPage, totalPages - 1)
ClampPage(pageIndex, totalPages) == Min(pageIndex, totalPages - 1)

\* seq.slice(begin, end)
Slice(seq, begin, end) == SubSeq(seq, begin + 1, Min(end, Len(seq)))

\* visitedPools.slice(page * stampsPerPage, page * stampsPerPage + stampsPerPage)
PageSlice(seq, pageIndex) ==
  Slice(seq, pageIndex * stampsPerPage, pageIndex * stampsPerPage + stampsPerPage)

\* the pagination renderStamps computes from the stamp sequence and the index
Paginate(seq, pageIndex) ==
  LET tp == TotalPages(Len(seq))
      ci == ClampPage(pageIndex, tp)
  IN [totalPages |-> tp, clampedIndex |-> ci, page |-> PageSlice(seq, ci)]

\* ------------------------------------------------------------------------
\* State
\* ------------------------------------------------------------------------

VARIABLES
  lsVisited,          \* localStorage[LS_KEYS.VISITED]
  lsSelection,        \* localStorage[LS_KEYS.SELECTION]
  lsStampsPage,       \* localStorage[LS_KEYS.STAMPS_PAGE]
  lsWritable,         \* localStorage.setItem succeeds
  pools,              \* let pools
  visited,            \* let visited
  selectedIndex,      \* let selectedIndex: its whole part
  selectedHalf,       \* selectedIndex has the fractional part 1/2
  currentStampsPage,  \* let currentStampsPage
  wired,              \* init() has attached the event listeners
  countBadge,         \* countBadge.textContent: <<done, total>>
  grid,               \* the cards in passportGrid: <<pool id, date shown>>
  pageLabel,          \* passportPageLabel: <<page number, totalPages>>
  prevDisabled,       \* prevStampsPageBtn.disabled
  nextDisabled,       \* nextStampsPageBtn.disabled
  last,               \* history: the handler that ran last
  paginateIn,         \* history: the index the pagination specification drew
  other,              \* module state of a second tab on the same origin
  sortKeys            \* per stamped pool: the calendar day its date was
                      \* written from, and the dateKey of the date once computed

vars ==
  <<lsVisited, lsSelection, lsStampsPage, lsWritable, pools, visited,
    selectedIndex, selectedHalf, currentStampsPage, wired, countBadge,
    grid, pageLabel, prevDisabled, nextDisabled, last, paginateIn, other, sortKeys>>

\* what the handlers of this tab never touch
aside == <<other, sortKeys>>

\* the module state of a second tab: let visited, let currentStampsPage, and
\* (history) the set it read when it was opened
Tab(vis, page, loaded) ==
  [open |-> TRUE, visited |-> vis, currentStampsPage |-> page, loaded |-> loaded]

\* no second tab is open
NoTab == [open |-> FALSE, visited |-> EmptyMap, currentStampsPage |-> 0, loaded |-> EmptyMap]

\* the history record: handler, the pool id it was given, whether it ended
\* in an uncaught exception, the visited map before it (for toggleStamp and a
\* confirmed reset), and whether it repeated a render that had just completed
Ran(op, id, threw, before) ==
  [op |-> op, id |-> id, threw |-> threw, before |-> before, again |-> FALSE]

NoId == "-"

\* ------------------------------------------------------------------------
\* Module evaluation: the state the handlers start from
\* ------------------------------------------------------------------------

\* What the substrate holds when the page is opened: any visited payload with
\* the page entry absent or at its largest, or no visited payload with any
\* selection entry or any page entry.
StoredAtStart ==
  (VisitedPayloads \X {NoIndex} \X {NoIndex, IndexText(MaxPage)})
    \cup ({NoPayload} \X SelectionPayloads \X {NoIndex})
    \cup ({NoPayload} \X {NoIndex} \X IndexPayloads(MaxPage))

Init ==
  /\ \E stored \in StoredAtStart :
       /\ lsVisited = stored[1]
       /\ lsSelection = stored[2]
       /\ lsStampsPage = stored[3]
  /\ lsWritable = TRUE
  /\ pools = <<>>
  /\ visited = readVisited(lsVisited)
  /\ selectedIndex = readSelection(lsSelection)
  /\ selectedHalf = ReadHalf(lsSelection)
  /\ currentStampsPage = readStampsPage(lsStampsPage)
  /\ wired = FALSE
  /\ countBadge = <<>>
  /\ grid = <<>>
  /\ pageLabel = <<>>
  /\ prevDisabled = FALSE
  /\ nextDisabled = FALSE
  /\ last = Ran("load", NoId, FALSE, EmptyMap)
  /\ paginateIn = 0 - 1
  /\ other = NoTab
  /\ sortKeys = EmptyMap

\* ------------------------------------------------------------------------
\* Rendering
\* ------------------------------------------------------------------------

\* renderList() -> updateCount(): the header badge.  With a fractional
\* selectedIndex pools[selectedIndex] is undefined and reading its id raises
\* a TypeError before updateCount() is reached (half).
renderList(catalog, vis, half) ==
  IF half
    THEN UNCHANGED countBadge
    ELSE countBadge' = <<countVisited(vis), Len(catalog)>>

\* renderStamps() run on the visited map vis with currentStampsPage = page and
\* the stored page entry lsPage; threw: the sort comparator raised
renderStamps(vis, page, lsPage, threw) ==
  \E found \in {FilterVisited(pools, vis)} :
     /\ threw \in SortThrows(vis, found)
     /\ IF threw
          THEN /\ currentStampsPage' = page
               /\ lsStampsPage' = lsPage
               /\ UNCHANGED <<grid, pageLabel, prevDisabled, nextDisabled>>
          ELSE \E pg \in {Paginate(StampSequence(pools, vis), page)} :
               /\ currentStampsPage' = pg.clampedIndex
               /\ lsStampsPage' = writeStampsPage(lsPage, pg.clampedIndex, lsWritable)
               /\ pageLabel' = <<pg.clampedIndex + 1, pg.totalPages>>
               /\ prevDisabled' = (pg.clampedIndex <= 0)
               /\ nextDisabled' = (pg.clampedIndex >= pg.totalPages - 1)
               /\ grid' = [i \in 1..Len(pg.page) |->
                             <<pg.page[i], formatDateAU(vis[pg.page[i]].date)>>]

\* ------------------------------------------------------------------------
\* init(): pools loaded, selection clamped, listeners attached, first render
\* ------------------------------------------------------------------------

\* the two range checks on the whole part (index + 1/2 >= n exactly when
\* index >= n)
ClampSelection(index, n) ==
  IF index < 0 THEN 0
  ELSE IF index >= n THEN Max(0, n - 1)
  ELSE index

\* the fractional part survives the range checks unless one of them assigns
ClampHalf(index, half, n) == half /\ index >= 0 /\ index < n

\* the first renderList() raises on a fractional selection, after the
\* listeners have been attached
init ==
  /\ ~wired
  /\ pools' = Catalog
  /\ selectedIndex' = ClampSelection(selectedIndex, Len(Catalog))
  /\ selectedHalf' = ClampHalf(selectedIndex, selectedHalf, Len(Catalog))
  /\ wired' = TRUE
  /\ renderList(Catalog, visited, selectedHalf')
  /\ last' = Ran("init", NoId, selectedHalf', EmptyMap)
  /\ UNCHANGED <<lsVisited, lsSelection, lsStampsPage, lsWritable, visited,
                 currentStampsPage, grid, pageLabel, prevDisabled, nextDisabled,
                 paginateIn, aside>>

\* ------------------------------------------------------------------------
\* toggleStamp(poolId)
\* ------------------------------------------------------------------------

Without(vis, id) == [k \in DOMAIN vis \ {id} |-> vis[k]]

With(vis, id, rec) == [k \in DOMAIN vis \cup {id} |-> IF k = id THEN rec ELSE vis[k]]

\* toggleStamp testing visited[poolId] instead of visited[poolId]?.done
ToggledMapIfPresent(vis, id, today) ==
  IF id \in DOMAIN vis
    THEN Without(vis, id)
    ELSE With(vis, id, [done |-> TRUE, date |-> today])

\* toggleStamp marking the entry done:false instead of deleting it
ToggledMapKeepFalse(vis, id, today) ==
  IF IsDone(vis, id)
    THEN With(vis, id, [done |-> FALSE, date |-> vis[id].date])
    ELSE With(vis, id, [done |-> TRUE, date |-> today])

\* toggleStamp without its delete branch
ToggledMapAlwaysStamps(vis, id, today) ==
  With(vis, id, [done |-> TRUE, date |-> today])

\* the visited map after toggleStamp's if / else, today the formatted date
ToggledMap(vis, id, today) ==
  IF IsDone(vis, id)
    THEN Without(vis, id)
    ELSE With(vis, id, [done |-> TRUE, date |-> today])

\* the click on the stamp chip renderList drew for pools[selectedIndex]
\* (no chip is drawn while the selection is fractional)
toggleStamp(day, threw) ==
  LET poolId == pools[selectedIndex + 1]
      today == FormatAUDate(day)
      after == ToggledMap(visited, poolId, today)
  IN /\ wired
     /\ ~selectedHalf
     /\ visited' = after
     /\ lsVisited' = writeVisited(lsVisited, after, lsWritable)
     /\ renderList(pools, after, FALSE)
     /\ renderStamps(after, currentStampsPage, lsStampsPage, threw)
     /\ last' = Ran("toggle", poolId, threw, visited)
     /\ UNCHANGED <<lsSelection, lsWritable, pools, selectedIndex, selectedHalf,
                    wired, paginateIn, aside>>

\* ------------------------------------------------------------------------
\* The button handlers wired by init()
\* ------------------------------------------------------------------------

\* resetBtn, confirm() answered with ok
reset(ok) ==
  /\ wired
  /\ IF ~ok
       THEN /\ last' = Ran("resetDeclined", NoId, FALSE, EmptyMap)
            /\ UNCHANGED <<lsVisited, lsSelection, lsStampsPage, lsWritable, pools,
                           visited, selectedIndex, selectedHalf, currentStampsPage,
                           wired, countBadge, grid, pageLabel,
                           prevDisabled, nextDisabled, paginateIn, aside>>
       ELSE /\ visited' = EmptyMap
            /\ lsVisited' = writeVisited(lsVisited, EmptyMap, lsWritable)
            /\ renderList(pools, EmptyMap, selectedHalf)
            /\ IF selectedHalf
                 THEN /\ currentStampsPage' = 0
                      /\ lsStampsPage' = writeStampsPage(lsStampsPage, 0, lsWritable)
                      /\ UNCHANGED <<grid, pageLabel, prevDisabled, nextDisabled>>
                 ELSE renderStamps(EmptyMap, 0,
                                   writeStampsPage(lsStampsPage, 0, lsWritable), FALSE)
            /\ last' = Ran("reset", NoId, selectedHalf, visited)
            /\ UNCHANGED <<lsSelection, lsWritable, pools, selectedIndex, selectedHalf,
                           wired, paginateIn, aside>>

\* btnUp / btnDown: step is +1 / -1.  (x + 1/2) % n keeps the fractional
\* part and takes the whole part modulo n; renderList() then raises.
moveSelection(op, step) ==
  LET index == (selectedIndex + step + Len(pools)) % Len(pools)
  IN /\ wired
     /\ Len(pools) > 0
     /\ selectedIndex' = index
     /\ lsSelection' = writeSelection(lsSelection, index, selectedHalf, lsWritable)
     /\ renderList(pools, visited, selectedHalf)
     /\ last' = Ran(op, NoId, selectedHalf, EmptyMap)
     /\ UNCHANGED <<lsVisited, lsStampsPage, lsWritable, pools, visited, selectedHalf,
                    currentStampsPage, wired, grid,
                    pageLabel, prevDisabled, nextDisabled, paginateIn, aside>>

btnUp == moveSelection("up", 1)

btnDown == moveSelection("down", 0 - 1)

\* prevStampsPageBtn / nextStampsPageBtn, page the index the handler stores
turnPage(op, page, threw) ==
  /\ wired
  /\ renderStamps(visited, page, writeStampsPage(lsStampsPage, page, lsWritable), threw)
  /\ last' = Ran(op, NoId, threw, EmptyMap)
  /\ UNCHANGED <<lsVisited, lsSelection, lsWritable, pools, visited, selectedIndex,
                 selectedHalf, wired, countBadge, paginateIn, aside>>

prevPage(threw) ==
  /\ ~prevDisabled
  /\ turnPage("prev", Max(0, currentStampsPage - 1), threw)

nextPage(threw) ==
  /\ ~nextDisabled
  /\ currentStampsPage < MaxPage
  /\ turnPage("next", currentStampsPage + 1, threw)

\* toggleBtn: setView(true), the passport view opened.  (setView(false), the
\* way back to the list, changes none of the state modelled here, so which
\* view is showing is not part of the state.)
setView(threw) ==
  /\ wired
  /\ renderStamps(visited, currentStampsPage, lsStampsPage, threw)
  /\ last' = [Ran("setView", NoId, threw, EmptyMap)
                EXCEPT !.again = (last.op = "setView" /\ ~last.threw)]
  /\ UNCHANGED <<lsVisited, lsSelection, lsWritable, pools, visited, selectedIndex,
                 selectedHalf, wired, countBadge, paginateIn, aside>>

Next ==
  \/ init
  \/ \E day \in Days, threw \in BOOLEAN : toggleStamp(day, threw)
  \/ \E ok \in BOOLEAN : reset(ok)
  \/ btnUp
  \/ btnDown
  \/ \E threw \in BOOLEAN : prevPage(threw)
  \/ \E threw \in BOOLEAN : nextPage(threw)
  \/ \E threw \in BOOLEAN : setView(threw)

Spec == Init /\ [][Next]_vars

\* ------------------------------------------------------------------------
\* Pagination on its own: a passport of n stamps, all of one day (so the
\* stable sort keeps catalog order), opened with any stored page index
\* ------------------------------------------------------------------------

StampedOn(ids, day) == [id \in ids |-> [done |-> TRUE, date |-> FormatAUDate(day)]]

InitPaginate ==
  \E n \in 0..MaxStamps, index \in 0..MaxPageIn, day \in Days :
    /\ pools = SubSeq(PoolNames, 1, n)
    /\ visited = StampedOn({PoolNames[i] : i \in 1..n}, day)
    /\ lsVisited = StringifyVisited(visited)
    /\ lsSelection = NoIndex
    /\ lsStampsPage = IndexText(index)
    /\ lsWritable = TRUE
    /\ selectedIndex = readSelection(lsSelection)
    /\ selectedHalf = ReadHalf(lsSelection)
    /\ currentStampsPage = readStampsPage(lsStampsPage)
    /\ wired = TRUE
    /\ countBadge = <<countVisited(visited), n>>
    /\ grid = <<>>
    /\ pageLabel = <<>>
    /\ prevDisabled = FALSE
    /\ nextDisabled = FALSE
    /\ last = Ran("init", NoId, FALSE, EmptyMap)
    /\ paginateIn = index
    /\ other = NoTab
    /\ sortKeys = EmptyMap

NextPaginate == \E threw \in BOOLEAN : setView(threw)

SpecPaginate == InitPaginate /\ [][NextPaginate]_vars

\* ------------------------------------------------------------------------
\* Module evaluation on any stored triple, for the specifications below
\* ------------------------------------------------------------------------

\* the state after app.js has been evaluated with stored = <<visited payload,
\* selection entry, stamps page entry>> in a substrate that takes writes or
\* does not
Evaluated(stored, writable) ==
  /\ lsVisited = stored[1]
  /\ lsSelection = stored[2]
  /\ lsStampsPage = stored[3]
  /\ lsWritable = writable
  /\ pools = <<>>
  /\ visited = readVisited(lsVisited)
  /\ selectedIndex = readSelection(lsSelection)
  /\ selectedHalf = ReadHalf(lsSelection)
  /\ currentStampsPage = readStampsPage(lsStampsPage)
  /\ wired = FALSE
  /\ countBadge = <<>>
  /\ grid = <<>>
  /\ pageLabel = <<>>
  /\ prevDisabled = FALSE
  /\ nextDisabled = FALSE
  /\ last = Ran("load", NoId, FALSE, EmptyMap)
  /\ paginateIn = 0 - 1
  /\ other = NoTab
  /\ sortKeys = EmptyMap

\* ------------------------------------------------------------------------
\* Loading: the page opened on whatever the visited key holds, then browsed
\* ------------------------------------------------------------------------

LoadPayloads == VisitedPayloads \cup ArrayPayloads \cup {DeniedPayload}

InitLoad == \E payload \in LoadPayloads : Evaluated(<<payload, NoIndex, NoIndex>>, TRUE)

NextLoad == init \/ btnUp \/ btnDown

SpecLoad == InitLoad /\ [][NextLoad]_vars

\* ------------------------------------------------------------------------
\* A substrate that refuses every write (quota exceeded, storage blocked):
\* the session opened on a legacy payload it can still read
\* ------------------------------------------------------------------------

\* legacy payloads marking none, one or both of the first two pools visited
WriteFailMaps == {m \in LegacyMaps : \A k \in DOMAIN m : m[k] = JBool(TRUE)}

InitWriteFail ==
  \E m \in WriteFailMaps : Evaluated(<<[t |-> "map", m |-> m], NoIndex, NoIndex>>, FALSE)

SpecWriteFail == InitWriteFail /\ [][Next]_vars

\* ------------------------------------------------------------------------
\* dateKey on its own: two stamps whose dates were written from two calendar
\* days, each in the ISO or the en-AU form, and their keys computed
\* ------------------------------------------------------------------------

Years == {1999, 2024, 2025}

Months == {1, 2, 12}

MonthDays == {1, 2, 15, 28}

CalendarDays == Years \X Months \X MonthDays

\* the date text of a calendar day in one of the two stored forms
DateText(day, form) == IF form = "iso" THEN FormatISODate(day) ELSE FormatAUDate(day)

InitDateKey ==
  \E a, b \in CalendarDays, fa, fb \in {"iso", "au"} :
    /\ pools = SubSeq(PoolNames, 1, 2)
    /\ visited = [id \in {PoolNames[1], PoolNames[2]} |->
                    [done |-> TRUE,
                     date |-> IF id = PoolNames[1] THEN DateText(a, fa) ELSE DateText(b, fb)]]
    /\ sortKeys = [id \in {PoolNames[1], PoolNames[2]} |->
                     [day |-> IF id = PoolNames[1] THEN a ELSE b, key |-> Null]]
    /\ lsVisited = StringifyVisited(visited)
    /\ lsSelection = NoIndex
    /\ lsStampsPage = NoIndex
    /\ lsWritable = TRUE
    /\ selectedIndex = readSelection(lsSelection)
    /\ selectedHalf = ReadHalf(lsSelection)
    /\ currentStampsPage = readStampsPage(lsStampsPage)
    /\ wired = TRUE
    /\ countBadge = <<countVisited(visited), 2>>
    /\ grid = <<>>
    /\ pageLabel = <<>>
    /\ prevDisabled = FALSE
    /\ nextDisabled = FALSE
    /\ last = Ran("init", NoId, FALSE, EmptyMap)
    /\ paginateIn = 0 - 1
    /\ other = NoTab

\* dateKey(visited[id].date) computed for every stamp
keyDates ==
  /\ sortKeys' = [id \in DOMAIN sortKeys |->
                    [sortKeys[id] EXCEPT !.key = dateKey(visited[id].date)]]
  /\ last' = Ran("dateKey", NoId, FALSE, EmptyMap)
  /\ UNCHANGED <<lsVisited, lsSelection, lsStampsPage, lsWritable, pools, visited,
                 selectedIndex, selectedHalf, currentStampsPage, wired, countBadge,
                 grid, pageLabel, prevDisabled, nextDisabled, paginateIn, other>>

NextDateKey == keyDates

SpecDateKey == InitDateKey /\ [][NextDateKey]_vars

\* ------------------------------------------------------------------------
\* Two tabs on one origin: a second copy of app.js with its own module
\* state, reading and writing the same localStorage
\* ------------------------------------------------------------------------

\* the second tab is opened: its module evaluation reads the substrate
otherOpen ==
  /\ ~other.open
  /\ other' = Tab(readVisited(lsVisited), readStampsPage(lsStampsPage),
                  readVisited(lsVisited))
  /\ last' = Ran("otherOpen", NoId, FALSE, EmptyMap)
  /\ UNCHANGED <<lsVisited, lsSelection, lsStampsPage, lsWritable, pools, visited,
                 selectedIndex, selectedHalf, currentStampsPage, wired, countBadge,
                 grid, pageLabel, prevDisabled, nextDisabled, paginateIn, sortKeys>>

\* toggleStamp(id) run in the second tab: its own visited map toggled and
\* written, its own passport rendered (which writes its clamped page index)
otherToggle(id, day, threw) ==
  LET after == ToggledMap(other.visited, id, FormatAUDate(day))
      found == FilterVisited(Catalog, after)
      pg == Paginate(StampSequence(Catalog, after), other.currentStampsPage)
  IN /\ other.open
     /\ threw \in SortThrows(after, found)
     /\ lsVisited' = writeVisited(lsVisited, after, lsWritable)
     /\ IF threw
          THEN /\ other' = [other EXCEPT !.visited = after]
               /\ UNCHANGED lsStampsPage
          ELSE /\ other' = [other EXCEPT !.visited = after,
                                         !.currentStampsPage = pg.clampedIndex]
               /\ lsStampsPage' = writeStampsPage(lsStampsPage, pg.clampedIndex, lsWritable)
     /\ last' = Ran("otherToggle", id, threw, other.visited)
     /\ UNCHANGED <<lsSelection, lsWritable, pools, visited, selectedIndex,
                    selectedHalf, currentStampsPage, wired, countBadge, grid,
                    pageLabel, prevDisabled, nextDisabled, paginateIn, sortKeys>>

\* this tab opened on an empty substrate, showing any pool of the catalog
InitTabs ==
  \E index \in 0..(NPools - 1) : Evaluated(<<NoPayload, IndexText(index), NoIndex>>, TRUE)

\* the day both tabs are used on
TabDay == CHOOSE day \in Days : TRUE

NextTabs ==
  \/ init
  \/ \E threw \in BOOLEAN : toggleStamp(TabDay, threw)
  \/ otherOpen
  \/ \E id \in PoolIds, threw \in BOOLEAN : otherToggle(id, TabDay, threw)

SpecTabs == InitTabs /\ [][NextTabs]_vars

\* ------------------------------------------------------------------------
\* Sessions one after another: the page closed and opened again on what the
\* session before left in the substrate
\* ------------------------------------------------------------------------

\* app.js evaluated anew: module state read from localStorage, the document
\* fresh, no listener attached until init() runs
openPage ==
  /\ wired
  /\ visited' = readVisited(lsVisited)
  /\ selectedIndex' = readSelection(lsSelection)
  /\ selectedHalf' = ReadHalf(lsSelection)
  /\ currentStampsPage' = readStampsPage(lsStampsPage)
  /\ pools' = <<>>
  /\ wired' = FALSE
  /\ countBadge' = <<>>
  /\ grid' = <<>>
  /\ pageLabel' = <<>>
  /\ prevDisabled' = FALSE
  /\ nextDisabled' = FALSE
  /\ last' = Ran("reload", NoId, FALSE, visited)
  /\ UNCHANGED <<lsVisited, lsSelection, lsStampsPage, lsWritable, paginateIn, aside>>

\* the payloads the first session is opened on: none, a legacy one with a
\* true and a false, a current one with an ISO-dated stamp and a truthy done
SessionPayloads ==
  {NoPayload,
   [t |-> "map", m |-> [k \in {Catalog[1], Catalog[2]} |-> JBool(k = Catalog[1])]],
   [t |-> "map", m |-> [k \in {Catalog[1], Catalog[2]} |->
                          IF k = Catalog[1] THEN JObj("true", StoredISO)
                                            ELSE JObj("yes", Null)]]}

InitSessions == \E payload \in SessionPayloads : Evaluated(<<payload, NoIndex, NoIndex>>, TRUE)

NextSessions == Next \/ openPage

SpecSessions == InitSessions /\ [][NextSessions]_vars

\* ------------------------------------------------------------------------
\* Selection: the page opened on whatever the selection key holds, then
\* stepped up and down
\* ------------------------------------------------------------------------

\* absent, not a number, negative, past the catalog, every valid index, and
\* numbers with a fractional part: below zero, inside and past the catalog
StoredSelections ==
  SelectionPayloads
    \cup {IndexText(n) : n \in 0..(NPools - 1)}
    \cup {HalfText(0 - 1), HalfText(0), HalfText(NPools - 1), HalfText(NPools)}

InitSelection ==
  \E m \in LegacyMaps, selection \in StoredSelections :
    Evaluated(<<[t |-> "map", m |-> m], selection, NoIndex>>, TRUE)

NextSelection == init \/ btnUp \/ btnDown

SpecSelection == InitSelection /\ [][NextSelection]_vars

\* ------------------------------------------------------------------------
\* Properties
\* ------------------------------------------------------------------------

\* the program's own state, without the history variables
progVars ==
  <<lsVisited, lsSelection, lsStampsPage, lsWritable, pools, visited,
    selectedIndex, selectedHalf, currentStampsPage, wired, countBadge, grid,
    pageLabel, prevDisabled, nextDisabled>>

\* the texts toggleStamp can write as today's date
TodayTexts == {FormatAUDate(day) : day \in Days}

\* the pool ids with a done record
DoneIds(vis) == {k \in DOMAIN vis : vis[k].done}

\* ceil(n / 2), stated without division
CeilHalf(n) == CHOOSE k \in 0..n : 2 * k >= n /\ 2 * (k - 1) < n

\* the ids on the cards shown
GridIds == [i \in 1..Len(grid) |-> grid[i][1]]

\* C1: after toggleStamp(id), an id that was present and done is gone from
\* the in-memory set (no done:false entry is left); any other id now maps to
\* {done:true, date: today as DD/MM/YYYY}; every other pool's entry is as it
\* was before the call.
C1_ToggleEffect ==
  last.op = "toggle" =>
    /\ IsDone(last.before, last.id) => last.id \notin DOMAIN visited
    /\ ~IsDone(last.before, last.id) =>
         /\ last.id \in DOMAIN visited
         /\ visited[last.id].done = TRUE
         /\ visited[last.id].date \in TodayTexts
         /\ IsAUText(visited[last.id].date)
    /\ DOMAIN visited \ {last.id} = DOMAIN last.before \ {last.id}
    /\ \A k \in DOMAIN visited \ {last.id} : visited[k] = last.before[k]

\* C1 witness: a done entry was toggled away while other pools keep theirs
C1_Witness ==
  /\ last.op = "toggle"
  /\ IsDone(last.before, last.id)
  /\ last.id \notin DOMAIN visited
  /\ DOMAIN visited # {}

\* C2 as claimed, for the states a toggle or a reset leaves: every entry of
\* the in-memory set, and of the visited payload the core has just written,
\* has done = true.
C2_AllDone ==
  last.op \in {"toggle", "reset"} =>
    /\ \A k \in DOMAIN visited : visited[k].done
    /\ \A k \in DOMAIN lsVisited.m : lsVisited.m[k].done = "true"

\* C2 amended: no handler creates a done:false entry.  An in-memory entry
\* with done = false after a step was there, unchanged, before the step (so
\* it goes back to what load() made of the payload), and a payload the step
\* writes holds done:false only for such entries.
C2_NoNewNotDone ==
  [][/\ \A k \in DOMAIN visited' :
          ~visited'[k].done => (k \in DOMAIN visited /\ visited[k] = visited'[k])
     /\ lsVisited' # lsVisited =>
          \A k \in DOMAIN lsVisited'.m :
            lsVisited'.m[k].done # "true" =>
              (k \in DOMAIN visited /\ ~visited[k].done)]_vars

\* C2 witness: a loaded done:false entry has been written back by a toggle of
\* another pool
C2_Witness ==
  /\ last.op = "toggle"
  /\ \E k \in DOMAIN visited :
       /\ k # last.id
       /\ ~visited[k].done
       /\ k \in DOMAIN lsVisited.m
       /\ lsVisited.m[k] = JObj("false", visited[k].date)
  /\ last.id \in DOMAIN visited

\* C3 as claimed: a legacy boolean payload loads as {done:true, date:null}
\* for exactly the ids mapped to true, with no entry for the ids mapped to
\* false.
C3_LegacyFalseDropped ==
  (~wired /\ IsLegacyPayload(lsVisited)) =>
    /\ DOMAIN visited = {k \in DOMAIN lsVisited.m : lsVisited.m[k] = JBool(TRUE)}
    /\ \A k \in DOMAIN visited : visited[k] = [done |-> TRUE, date |-> Null]

\* C3 amended: a legacy boolean payload loads with an entry for every id of
\* the payload: {done:true, date:null} for the ids mapped to true and
\* {done:false, date:null} for the ids mapped to false, which count as not
\* visited.
C3_LegacyNormalized ==
  (~wired /\ IsLegacyPayload(lsVisited)) =>
    /\ DOMAIN visited = DOMAIN lsVisited.m
    /\ \A k \in DOMAIN visited :
         /\ lsVisited.m[k] = JBool(TRUE) => visited[k] = [done |-> TRUE, date |-> Null]
         /\ lsVisited.m[k] = JBool(FALSE) => visited[k] = [done |-> FALSE, date |-> Null]
    /\ DoneIds(visited) = {k \in DOMAIN lsVisited.m : lsVisited.m[k] = JBool(TRUE)}

\* C3 witness: a legacy payload with a true and a false entry has been loaded
C3_Witness ==
  /\ ~wired
  /\ IsLegacyPayload(lsVisited)
  /\ \E a, b \in DOMAIN lsVisited.m :
       /\ lsVisited.m[a] = JBool(TRUE) /\ lsVisited.m[b] = JBool(FALSE)
       /\ a \in DOMAIN visited /\ b \in DOMAIN visited

\* C4 as claimed: the stamp sequence holds exactly the catalog pools with a
\* done record and is in ascending order of the YYYYMMDD key of their dates.
\* (Stated for the states in which every stamp has a date.)
C4_SortedByDateKey ==
  (wired /\ \A k \in DoneIds(visited) : visited[k].date # Null) =>
    LET seq == StampSequence(pools, visited)
    IN /\ {seq[i] : i \in 1..Len(seq)} = DoneIds(visited) \cap PoolIds
       /\ Len(seq) = Cardinality(DoneIds(visited) \cap PoolIds)
       /\ \A i, j \in 1..Len(seq) :
            i < j => localeCompare(dateKey(visited[seq[i]].date),
                                   dateKey(visited[seq[j]].date)) <= 0

\* C5: with 2 stamps a page, for n stamps and a stored index p >= 0 the
\* passport shows totalPages = max(1, ceil(n/2)), the index
\* max(0, min(p, totalPages - 1)), and the stamps at positions
\* [index*2, index*2 + 2) of the sequence.
C5_Paginate ==
  (last.op = "setView" /\ ~last.threw) =>
    LET n == Len(pools)
        tp == Max(1, CeilHalf(n))
        ci == Max(0, Min(paginateIn, tp - 1))
        at == {j \in 0..(n - 1) : ci * 2 <= j /\ j < ci * 2 + 2}
    IN /\ pageLabel = <<ci + 1, tp>>
       /\ currentStampsPage = ci
       /\ Len(grid) = Cardinality(at)
       /\ \A i \in 1..Len(grid) : GridIds[i] = pools[ci * 2 + i]

\* C5 witness: 5 stamps, index 10: page 3 of 3 with the fifth stamp alone
C5_Witness ==
  /\ last.op = "setView"
  /\ Len(pools) = 5
  /\ paginateIn = 10
  /\ currentStampsPage = 2
  /\ pageLabel = <<3, 3>>
  /\ GridIds = <<PoolNames[5]>>

\* C6 as claimed: after toggle, reset, previous-page and next-page the
\* in-memory page index and the stored one lie in [0, totalPages - 1], with
\* totalPages = max(1, ceil(visited catalog pools / 2)).
C6_PageInRange ==
  last.op \in {"toggle", "reset", "prev", "next"} =>
    LET tp == Max(1, CeilHalf(Cardinality(DoneIds(visited) \cap PoolIds)))
    IN /\ currentStampsPage \in 0..(tp - 1)
       /\ lsStampsPage.t = "text"
       /\ lsStampsPage.n \in 0..(tp - 1)

\* C7: once the passport has been rendered, rendering it again leaves the
\* page index, totalPages, the page shown and the stored page index as they
\* are.
C7_ClampIdempotent ==
  [][(last.op = "setView" /\ ~last.threw) =>
       /\ currentStampsPage' = currentStampsPage
       /\ pageLabel' = pageLabel
       /\ grid' = grid
       /\ lsStampsPage' = lsStampsPage]_vars

\* C7 witness: an index past the end was clamped and the passport rendered
\* a second time
C7_Witness ==
  /\ last.op = "setView"
  /\ last.again
  /\ paginateIn > currentStampsPage
  /\ lsStampsPage = IndexText(currentStampsPage)

\* C8: the header shows count = the number of keys whose record is done and
\* total = the size of the catalog, whatever the set holds; the handlers that
\* only recount (init, up, down) leave the set and the stored payload alone.
C8_CountVisited ==
  /\ [](wired => countBadge = <<Cardinality(DoneIds(visited)), NPools>>)
  /\ [][last'.op \in {"init", "up", "down"} => UNCHANGED <<visited, lsVisited>>]_vars

\* C8 witness: a set with a done:false record and a done record was counted
C8_Witness ==
  /\ wired
  /\ \E a, b \in DOMAIN visited : ~visited[a].done /\ visited[b].done
  /\ countBadge[1] = Cardinality(DoneIds(visited))
  /\ countBadge[1] < Cardinality(DOMAIN visited)
  /\ last.op \in {"up", "down"}

\* C9: toggling an id that is not in the set and toggling it again gives back
\* the set as it was, in memory and as read back from storage; one toggle of
\* an id that is present and done removes it.
C9_ToggleInverse ==
  [][last'.op = "toggle" =>
       /\ (last.op = "toggle" /\ last'.id = last.id /\ last.id \notin DOMAIN last.before) =>
            /\ visited' = last.before
            /\ readVisited(lsVisited') = last.before
       /\ IsDone(visited, last'.id) =>
            /\ last'.id \notin DOMAIN visited'
            /\ last'.id \notin DOMAIN lsVisited'.m]_vars

\* C9 witness: an id missing from a non-empty set was toggled in and out
C9_Witness ==
  /\ last.op = "toggle"
  /\ last.id \in DOMAIN last.before
  /\ last.before[last.id].date \in TodayTexts
  /\ last.id \notin DOMAIN visited
  /\ visited = Without(last.before, last.id)
  /\ DOMAIN visited # {}
  /\ readVisited(lsVisited) = visited

\* C10: a confirmed reset leaves the set empty and the page index 0, both in
\* memory and in storage, and the header at 0 of |catalog|; a declined reset
\* changes nothing in memory or in storage.
C10_Reset ==
  /\ [](last.op = "reset" =>
          /\ visited = EmptyMap
          /\ currentStampsPage = 0
          /\ lsVisited = StringifyVisited(EmptyMap)
          /\ readVisited(lsVisited) = EmptyMap
          /\ lsStampsPage = IndexText(0)
          /\ readStampsPage(lsStampsPage) = 0
          /\ countBadge = <<0, NPools>>)
  /\ [][last'.op = "resetDeclined" => UNCHANGED progVars]_vars

\* C10 witness: a passport of three or more stamps was reset
C10_Witness ==
  /\ last.op = "reset"
  /\ Cardinality(DoneIds(last.before)) >= 3
  /\ visited = EmptyMap
  /\ currentStampsPage = 0

\* C11 as claimed: when the read raises, the payload is absent, not parsable
\* or not a mapping, load() returns the empty set without raising, and the
\* stored payload stays as it is while the set is only read.
C11_LoadNeverFails ==
  /\ [](lsVisited.t \in NotAMapping => (visited = EmptyMap /\ ~last.threw))
  /\ [][lsVisited' = lsVisited]_vars

\* C12 as claimed: when the substrate refuses the writes of a toggle or a
\* reset, no error escapes the handler, the stored payload stays what it was,
\* and the in-memory set holds the mutation: the toggled id is stamped or
\* removed, a reset set is empty, and the header counts the set as mutated.
C12_WriteFailure ==
  /\ [](last.op \in {"toggle", "reset"} =>
          /\ ~last.threw
          /\ countBadge = <<Cardinality(DoneIds(visited)), NPools>>
          /\ last.op = "reset" => visited = EmptyMap
          /\ last.op = "toggle" =>
               \E today \in TodayTexts :
                 visited = ToggledMap(last.before, last.id, today))
  /\ [][~lsWritable => lsVisited' = lsVisited]_vars

\* the handlers C13 calls mutations, run to their end
Mutated == last.op \in {"toggle", "reset", "prev", "next", "up", "down"} /\ ~last.threw

Before(a, b) ==
  \/ a[1] < b[1]
  \/ a[1] = b[1] /\ a[2] < b[2]
  \/ a[1] = b[1] /\ a[2] = b[2] /\ a[3] < b[3]

\* C14: for two valid calendar dates, each written as YYYY-MM-DD or as
\* DD/MM/YYYY, dateKey gives the 8 digits YYYYMMDD; the key of the earlier
\* date is lexicographically less than the key of the later one, and the
\* same date has the same key in both forms.
C14_DateKeyOrder ==
  last.op = "dateKey" =>
    \A i, j \in DOMAIN sortKeys :
      LET a == sortKeys[i].day
          b == sortKeys[j].day
          ka == sortKeys[i].key
          kb == sortKeys[j].key
      IN /\ Len(ka) = 8
         /\ \A n \in 1..Len(ka) : ka[n] \in Digits
         /\ ka = FourDigits(a[1]) \o TwoDigits(a[2]) \o TwoDigits(a[3])
         /\ Before(a, b) => localeCompare(ka, kb) < 0
         /\ a = b => ka = kb

\* C14 witness: 15 December 2024 in en-AU form and 1 February 2025 in ISO
\* form (the two forms mixed), keyed in calendar order
C14_Witness ==
  /\ last.op = "dateKey"
  /\ visited[PoolNames[1]].date = FormatAUDate(<<2024, 12, 15>>)
  /\ visited[PoolNames[2]].date = FormatISODate(<<2025, 2, 1>>)
  /\ localeCompare(visited[PoolNames[1]].date, visited[PoolNames[2]].date) < 0
  /\ localeCompare(sortKeys[PoolNames[1]].key, sortKeys[PoolNames[2]].key) < 0
  /\ sortKeys[PoolNames[2]].key = <<"2", "0", "2", "5", "0", "2", "0", "1">>

\* C15 as claimed: renderStamps never raises: no handler that computes the
\* stamp sequence and its page (opening the passport, a toggle, a reset,
\* previous / next page) ends in an exception, whatever set load() returned
\* and whichever toggles followed, two or more null-dated stamps included.
C15_NoFatalError ==
  last.op \in {"setView", "toggle", "reset", "prev", "next"} => ~last.threw

\* C16: two tabs on one substrate, each with the set it loaded when opened.
\* After a toggle in either tab the stored payload is exactly that tab's
\* in-memory set (the last writer's), whatever the other tab had written;
\* neither tab's set changes when the other tab writes, and a tab toggles
\* its own set, not the stored one.
C16_LastWriterWins ==
  /\ [](last.op = "toggle" => lsVisited = StringifyVisited(visited))
  /\ [](last.op = "otherToggle" => lsVisited = StringifyVisited(other.visited))
  /\ [][/\ last'.op \in {"otherOpen", "otherToggle"} => visited' = visited
        /\ last'.op \in {"init", "toggle"} => other' = other
        /\ last'.op = "toggle" =>
             \E today \in TodayTexts : visited' = ToggledMap(visited, last'.id, today)
        /\ last'.op = "otherToggle" =>
             \E today \in TodayTexts :
               other'.visited = ToggledMap(other.visited, last'.id, today)]_vars

\* C16 witness: a stamp this tab added after the second tab had loaded is
\* missing from the payload the second tab has just written for another pool
C16_Witness ==
  /\ last.op = "otherToggle"
  /\ \E x \in DoneIds(visited) :
       /\ visited[x].date \in TodayTexts
       /\ x # last.id
       /\ x \notin DOMAIN other.loaded
       /\ x \notin DOMAIN other.visited
       /\ x \notin DOMAIN lsVisited.m
  /\ last.id \in DOMAIN lsVisited.m

\* C17: with writes that succeed, a session opened after any toggles and
\* resets of the session before it loads the in-memory set that session
\* ended with: the same keys, each with the same done and the same date.
C17_SessionRoundTrip ==
  last.op = "reload" =>
    /\ DOMAIN visited = DOMAIN last.before
    /\ \A k \in DOMAIN visited :
         /\ visited[k].done = last.before[k].done
         /\ visited[k].date = last.before[k].date

\* C17 witness: a set with a stamp dated by a toggle and an entry that came
\* from the first payload has been loaded by the next session
C17_Witness ==
  /\ last.op = "reload"
  /\ \E a, b \in DOMAIN visited :
       /\ visited[a].date \in TodayTexts
       /\ visited[b].date \notin TodayTexts
  /\ lsVisited = StringifyVisited(last.before)
  /\ visited = last.before

\* C18 as claimed: whatever the stored selection entry holds at load, after
\* init() and after any selection up / down selectedIndex is an integer in
\* [0, |catalog| - 1]; up advances it by one and wraps from the last pool to
\* 0, down retreats by one and wraps from 0 to the last pool, and up followed
\* by down restores it.
C18_SelectionInRange ==
  /\ [](wired => (~selectedHalf /\ selectedIndex \in 0..(NPools - 1)))
  /\ [][/\ last'.op = "up" =>
             selectedIndex' = (IF selectedIndex = NPools - 1 THEN 0 ELSE selectedIndex + 1)
        /\ last'.op = "down" =>
             selectedIndex' = (IF selectedIndex = 0 THEN NPools - 1 ELSE selectedIndex - 1)
        /\ (last.op = "up" /\ last'.op = "down") =>
             /\ selectedIndex = (IF selectedIndex' = NPools - 1 THEN 0 ELSE selectedIndex' + 1)
             /\ lsSelection' = IndexText(selectedIndex')]_vars

====
